---- MODULE Spec2Model ----
(***************************************************************************)
(* Verification model of the axion field-propagation code:                 *)
(*   - TRestAxionFieldPropagationProcess::FindOneVolume and                *)
(*     FindFieldBoundaries (the boundary tracer),                          *)
(*   - TRestAxionFieldPropagationProcess::GetFieldVector (the profile       *)
(*     sampler),                                                           *)
(*   - TRestAxionPhotonConversion::GammaTransmissionProbability and        *)
(*     BLHalfSquared (the conversion probability).                         *)
(* Lengths are fixed-point numbers: one millimetre is Scale grid units.    *)
(* Every value used below (5, 5/2, 5/4, ..., minStep/2) is a multiple of   *)
(* the grid unit, so the integer arithmetic of the model is the arithmetic *)
(* of the doubles of the code, which is exact on these dyadic values.      *)
(* A TVector3 is a triple <<x, y, z>>; the code's index k is index k+1.    *)
(***************************************************************************)
EXTENDS Integers, Sequences, FiniteSets, TLC

\* Grid units per millimetre.
Scale == 2^10

\* Double_t dr = 5.;
CoarseStep == 5 * Scale
\* The search domain of the axis-aligned scans: -40000. .. 40000.
DomainLimit == 40000 * Scale
\* posInitial[0] = -direction[0]*25000.;
StartDistance == 25000 * Scale
\* Translation of the axion at the plane y = 10 m
YPlane == 10000 * Scale
\* if ( minStep == -1 ) minStep = 0.01;  (0.01 mm on the grid: 10/1024 mm)
DefaultMinStep == Scale \div 100

\* How many entries of boundaryCollection the model records; push_back on a
\* longer collection leaves the record as it is (the control flow of the
\* code never reads the collection).
MaxSegments == 3

Zero3 == <<0, 0, 0>>

\* Exact quotient a / b for the divisors the model uses.
ExactDiv(a, b) == IF b > 0 THEN a \div b ELSE -(a \div (-b))

-----------------------------------------------------------------------------
(* The magnetic field seen by the tracer: non-zero exactly on the slabs     *)
(* lo <= p[axis] < hi of the layout.                                        *)

\* fAxionMagneticField->GetMagneticField(x,y,z) != TVector3(0,0,0)
NonZero(lay, p) == \E iv \in lay.ivs : iv[1] <= p[lay.axis] /\ p[lay.axis] < iv[2]

\* Which of the three code paths a direction takes.
Branch(dir) ==
    IF dir[2] = 0 /\ dir[3] = 0 THEN "x"
    ELSE IF dir[1] = 0 /\ dir[2] = 0 THEN "z"
    ELSE "gen"

\* The coordinate the branch scans.
ScanAxis(br) == IF br = "x" THEN 1 ELSE IF br = "z" THEN 3 ELSE 2

\* One move of the scan by `step` (negative: backwards).
\*   x: pos[0] = pos[0] + dir[0]*step         z: pos[2] = pos[2] + dir[2]*step
\*   general: y = pos[1] - step; t = (y - pos[1]) / dir[1];
\*            pos[1] = y; pos[0] += t*dir[0]; pos[2] += t*dir[2]
Advance(p, dir, step) ==
    LET br == Branch(dir) IN
    IF br = "x" THEN [p EXCEPT ![1] = @ + dir[1] * step]
    ELSE IF br = "z" THEN [p EXCEPT ![3] = @ + dir[3] * step]
    ELSE LET y == p[2] - step
             t == ExactDiv(y - p[2], dir[2])
         IN  <<p[1] + t * dir[1], y, p[3] + t * dir[3]>>

\* The offset applied to pos before the scan starts.
\*   x: pos[0] += dir[0]*minStep/2   z: pos[2] += dir[2]*minStep/2
\*   general: pos[1] = pos[1] - minStep/2   (x and z are left as they are)
InitialOffset(p, dir, m) ==
    LET br == Branch(dir) IN
    IF br = "x" THEN [p EXCEPT ![1] = @ + (dir[1] * m) \div 2]
    ELSE IF br = "z" THEN [p EXCEPT ![3] = @ + (dir[3] * m) \div 2]
    ELSE [p EXCEPT ![2] = @ - m \div 2]

\* The domain test of the scan loops and of the callers' sentinel tests.
\*   x: pos[0] >= -40000. && pos[0] <= 40000.   general: pos[1] > 0
InDomain(p, dir) ==
    LET br == Branch(dir) IN
    IF br = "gen" THEN p[2] > 0
    ELSE p[ScanAxis(br)] >= -DomainLimit /\ p[ScanAxis(br)] <= DomainLimit

\* posInitial of FindFieldBoundaries.
PosInitial(p, dir) ==
    LET br == Branch(dir) IN
    IF br = "x" THEN [p EXCEPT ![1] = -dir[1] * StartDistance]
    ELSE IF br = "z" THEN [p EXCEPT ![3] = -dir[3] * StartDistance]
    ELSE LET t == ExactDiv(YPlane - p[2], dir[2])
         IN  <<p[1] + t * dir[1], YPlane, p[3] + t * dir[3]>>

\* boundaryCollection.push_back( buffVect )
PushBack(coll, pair) == IF Len(coll) < MaxSegments THEN Append(coll, pair) ELSE coll

-----------------------------------------------------------------------------
(* Inputs.                                                                  *)

\* Directions of the incoming axion: x-aligned, z-aligned, general and null.
Directions ==
    { <<1, 0, 0>>, <<-1, 0, 0>>, <<2, 0, 0>>,
      <<0, 0, 1>>, <<0, 0, -1>>,
      <<0, -1, 0>>, <<1, -1, 1>>, <<1, 1, 0>>,
      Zero3 }

\* Positions of the incoming axion.
Positions == { Zero3 }

\* minStep arguments: -1 selects the default.
MinStepArgs == { -1, (5 * Scale) \div 16, (5 * Scale) \div 4, 5 * Scale }

\* Where the slabs of a layout sit on the scanned axis.
Base(axis) == IF axis = 2 THEN 9900 * Scale ELSE -24990 * Scale

\* Slab layouts, in grid units relative to Base: no field, one wide region,
\* two regions far apart, a region that starts between two grid millimetres,
\* a region narrower than the coarse step, a region cut by two gaps
\* narrower than the smallest minStep but one, and two regions longer than
\* the coarse step with a gap of 780 grid units (0.76 mm) between them.
NarrowGaps == { <<-2240, -640>>, <<-480, 2720>>, <<2880, 4160>> }

CloseRegions == { <<10 * Scale, 30 * Scale>>, <<30 * Scale + 780, 45 * Scale>> }

RelLayouts ==
    { {},
      { <<10 * Scale, 30 * Scale>> },
      { <<10 * Scale, 30 * Scale>>, <<60 * Scale, 75 * Scale>> },
      { <<11 * Scale, 30 * Scale>> },
      { <<11 * Scale, 13 * Scale>> },
      NarrowGaps,
      CloseRegions }

Place(rel, axis) ==
    [axis |-> axis, ivs |-> { <<Base(axis) + iv[1], Base(axis) + iv[2]>> : iv \in rel }]

\* A region that holds the point where a ray without direction stays.
AroundOrigin == [axis |-> 1, ivs |-> { <<-10 * Scale, 10 * Scale>> }]

\* The layouts a direction is traced through.  A general direction with an x
\* or z component is not traced through NarrowGaps: its x and z drift by
\* minStep/2 at every restart, and the drift has no bound there.
Layouts(dir) ==
    LET axis == ScanAxis(Branch(dir))
        drifts == Branch(dir) = "gen" /\ (dir[1] # 0 \/ dir[3] # 0)
    IN  { Place(rel, axis) : rel \in IF drifts THEN RelLayouts \ {NarrowGaps} ELSE RelLayouts }
        \cup (IF dir = Zero3 THEN { AroundOrigin } ELSE {})

-----------------------------------------------------------------------------
VARIABLES
    layout,             \* the field (fAxionMagneticField)
    evPos,              \* *(fInputAxionEvent->GetPosition())
    direction,          \* *(fInputAxionEvent->GetDirection())
    minStepArg,         \* the argument of FindFieldBoundaries
    minStep,            \* minStep after the default is applied
    pc,                 \* position in the code
    callPos,            \* the pos argument of the running FindOneVolume call
    pos,                \* FindOneVolume: pos
    dr,                 \* FindOneVolume: dr
    boundaryIn,         \* FindOneVolume: boundaryIn
    bInt,               \* FindFieldBoundaries: bInt, the last result of FindOneVolume
    boundaryCollection, \* FindFieldBoundaries: boundaryCollection
    gfv,                \* the frame of GetFieldVector: in, out, N, i, differential, Bt
    gtp,                \* the frame of the scalar GammaTransmissionProbability
    pe,                 \* the frame of ProcessEvent and the event pointers of the process
    prop,               \* the process that asks the field for the track bounds
    vgtp,               \* the frame of GammaTransmissionProbability of a field vector
    firstRun,           \* the boundaries of an earlier FindFieldBoundaries on the same ray
    conc                \* ProcessEvent invoked by two threads on one process

vars == <<layout, evPos, direction, minStepArg, minStep, pc, callPos, pos, dr,
          boundaryIn, bInt, boundaryCollection, gfv, gtp, pe, prop,
          vgtp, firstRun, conc>>

inputs == <<layout, evPos, direction, minStepArg>>

\* The variables of FindOneVolume and FindFieldBoundaries.
tracer == <<minStep, callPos, pos, dr, boundaryIn, bInt, boundaryCollection>>

\* The variables the tracer does not touch.
\* The variables of the parts that run on their own.
apart == <<vgtp, firstRun, conc>>

others == <<gfv, gtp, pe, prop, apart>>

\* The values of the frames that are not running.
NoFieldVector ==
    [in0 |-> Zero3, in |-> Zero3, rem |-> Zero3, out |-> Zero3, N |-> 0, i |-> 0,
     differential |-> Zero3, Bt |-> <<>>]
NoGas == [present |-> FALSE, photonMass |-> 0, absorption |-> 0]
NoConversion ==
    [Ea |-> 0, Bmag |-> 0, ma |-> 0, Lcoh |-> 0, fBufferGas |-> NoGas,
     photonMass |-> 0, phi |-> 0, GammaL |-> 0, MFactorEvaluated |-> FALSE,
     queries |-> 0, sol |-> [form |-> "none", BLHalfSquared |-> 0, phi |-> 0, GammaL |-> 0]]

\* The smallest x, in tenths, for which exp( -x/10 ) is 0 in a double.
ExpUnderflow == 7452

\* The transmission exp( -x ) grows with the exponent.
Exp_Growing(x) == [exp |-> -x]

\* The double exp( -x/10 ), kept as its exponent x; every x from ExpUnderflow
\* on gives the same double, 0.
Exp(x) == [exp |-> IF x >= ExpUnderflow THEN ExpUnderflow ELSE x]
NoObservables ==
    [fieldAverage |-> 0, probability |-> <<>>, coherenceLength |-> 0, transmission |-> Exp(0)]
\* In the frame of ProcessEvent, accessed is the index of the last read of
\* boundaries (-1: none yet) and deleted the objects the destructor deleted,
\* in the order of the deletes.
NoEvent ==
    [Ea |-> 0, ma |-> 0, boundaries |-> <<>>, NofVolumes |-> 0, i |-> 0, B |-> <<>>,
     probabilities |-> <<>>, probability |-> <<>>, accessed |-> -1,
     fInputAxionEvent |-> "none", fInputEvent |-> "none",
     fOutputAxionEvent |-> "none", fOutputEvent |-> "none", deleted |-> <<>>,
     metadataField |-> FALSE, metadataConversion |-> FALSE,
     fAxionMagneticField |-> FALSE, fAxionPhotonConversion |-> FALSE,
     gammaProbability |-> "unset", position |-> "unset", returned |-> "none"]
NoProcess ==
    [fMagneticField |-> FALSE, fAxionField |-> FALSE, fBufferGas |-> NoGas,
     fBufferGasAdditionalLength |-> 0, fIntegrationStep |-> 0,
     metadataField |-> FALSE, metadataGas |-> NoGas,
     trackBounds |-> <<>>, bProfile |-> <<>>, Ea |-> 0, ma |-> 0,
     observables |-> NoObservables, warning |-> FALSE,
     events |-> 0, returned |-> "none"]

NoVectorConversion ==
    [Ea |-> 0, B |-> <<>>, ma |-> 0, Lcoh |-> 0, fBufferGas |-> NoGas, sol |-> "none"]
NoFirstRun == [kind |-> "none", direction |-> Zero3, minStep |-> 0, boundaries |-> <<>>]
NoThreads == [fAxionEvent |-> "none", thread |-> <<>>]

ApartIdle ==
    /\ vgtp = NoVectorConversion
    /\ firstRun = NoFirstRun
    /\ conc = NoThreads

FramesIdle ==
    /\ gfv = NoFieldVector
    /\ gtp = NoConversion
    /\ pe = NoEvent
    /\ prop = NoProcess
    /\ ApartIdle

TracerIdle ==
    /\ minStep = 0
    /\ callPos = Zero3
    /\ pos = Zero3
    /\ dr = 0
    /\ boundaryIn = Zero3
    /\ bInt = <<Zero3, Zero3>>
    /\ boundaryCollection = <<>>

Init ==
    /\ direction \in Directions
    /\ layout \in Layouts(direction)
    /\ evPos \in Positions
    /\ minStepArg \in MinStepArgs
    /\ pc = "FindFieldBoundaries"
    /\ TracerIdle
    /\ FramesIdle

\* Entry of FindOneVolume( p, direction, m ): the offset, dr = 5 and the
\* first test of while ( dr > minStep ).
CallFindOneVolume(p, m) ==
    /\ callPos' = p
    /\ pos' = InitialOffset(p, direction, m)
    /\ dr' = CoarseStep
    /\ pc' = IF CoarseStep > m THEN "scan" ELSE "found"

\* FindFieldBoundaries up to its first call of FindOneVolume.
FindFieldBoundaries ==
    /\ pc = "FindFieldBoundaries"
    /\ minStep' = IF minStepArg = -1 THEN DefaultMinStep ELSE minStepArg
    /\ CallFindOneVolume(PosInitial(evPos, direction), minStep')
    /\ UNCHANGED <<others, inputs, boundaryIn, bInt, boundaryCollection>>

\* One iteration of the inner while: the field is zero and pos is in the domain.
CoarseAdvance ==
    /\ pc = "scan"
    /\ ~NonZero(layout, pos) /\ InDomain(pos, direction)
    /\ pos' = Advance(pos, direction, dr)
    /\ UNCHANGED <<others, inputs, minStep, pc, callPos, dr, boundaryIn, bInt, boundaryCollection>>

\* The scan left the domain: return ( pos, (0,0,0) ).
ReturnNoVolume ==
    /\ pc = "scan"
    /\ ~(~NonZero(layout, pos) /\ InDomain(pos, direction))
    /\ ~InDomain(pos, direction)
    /\ bInt' = <<pos, Zero3>>
    /\ pc' = "ret"
    /\ UNCHANGED <<others, inputs, minStep, callPos, pos, dr, boundaryIn, boundaryCollection>>

\* A non-zero sample inside the domain: step back, halve dr, test dr > minStep.
Halve ==
    /\ pc = "scan"
    /\ ~(~NonZero(layout, pos) /\ InDomain(pos, direction))
    /\ InDomain(pos, direction)
    /\ pos' = Advance(pos, direction, -dr)
    /\ dr' = dr \div 2
    /\ pc' = IF dr' > minStep THEN "scan" ELSE "found"
    /\ UNCHANGED <<others, inputs, minStep, callPos, boundaryIn, bInt, boundaryCollection>>

\* EntryFound with the factor 2 of the last step forgotten.
EntryFound_OneStep ==
    /\ pc = "found"
    /\ pos' = Advance(pos, direction, dr)
    /\ boundaryIn' = pos'
    /\ pc' = "exit"
    /\ UNCHANGED <<others, inputs, minStep, callPos, dr, bInt, boundaryCollection>>

\* After the while ( dr > minStep ): pos += dir*dr*2; boundaryIn = pos.
EntryFound ==
    /\ pc = "found"
    /\ pos' = Advance(pos, direction, 2 * dr)
    /\ boundaryIn' = pos'
    /\ pc' = "exit"
    /\ UNCHANGED <<others, inputs, minStep, callPos, dr, bInt, boundaryCollection>>

\* One iteration of the exit scan: while ( field != 0 ) pos += dir*dr.
ExitAdvance ==
    /\ pc = "exit"
    /\ NonZero(layout, pos)
    /\ pos' = Advance(pos, direction, dr)
    /\ UNCHANGED <<others, inputs, minStep, pc, callPos, dr, boundaryIn, bInt, boundaryCollection>>

\* boundaryOut = pos; return ( boundaryIn, boundaryOut ).
ReturnVolume ==
    /\ pc = "exit"
    /\ ~NonZero(layout, pos)
    /\ bInt' = <<boundaryIn, pos>>
    /\ pc' = "ret"
    /\ UNCHANGED <<others, inputs, minStep, callPos, pos, dr, boundaryIn, boundaryCollection>>

\* FindFieldBoundaries: bInt[0] is in the domain: record the pair and call
\* FindOneVolume( bInt[1], direction, minStep ).
Collect ==
    /\ pc = "ret"
    /\ InDomain(bInt[1], direction)
    /\ boundaryCollection' = PushBack(boundaryCollection, bInt)
    /\ CallFindOneVolume(bInt[2], minStep)
    /\ UNCHANGED <<others, inputs, minStep, boundaryIn, bInt>>

\* FindFieldBoundaries: bInt[0] is outside the domain: return boundaryCollection.
ReturnCollection ==
    /\ pc = "ret"
    /\ ~InDomain(bInt[1], direction)
    /\ pc' = "done"
    /\ UNCHANGED <<others, inputs, minStep, callPos, pos, dr, boundaryIn, bInt, boundaryCollection>>

Next ==
    \/ FindFieldBoundaries
    \/ CoarseAdvance
    \/ ReturnNoVolume
    \/ Halve
    \/ EntryFound
    \/ ExitAdvance
    \/ ReturnVolume
    \/ Collect
    \/ ReturnCollection

Spec == Init /\ [][Next]_vars

\* The loops of the tracer are sequential code: a step that can be taken is taken.
FairSpec == Spec /\ WF_vars(Next)

-----------------------------------------------------------------------------
(* Properties of the boundary tracer.                                       *)

\* The scanned coordinate of a point.
Coord(p) == p[ScanAxis(Branch(direction))]

Abs(n) == IF n < 0 THEN -n ELSE n

\* The scan moves towards larger values of the scanned coordinate.
Ascending == Branch(direction) # "gen" /\ direction[ScanAxis(Branch(direction))] > 0

\* The last FindOneVolume call returned a segment, not the out-of-domain pair.
SegmentFound == pc = "ret" /\ InDomain(bInt[1], direction)

\* The bisection loop of FindOneVolume runs at least once.
Bisected == CoarseStep > minStep

\* The first point the running FindOneVolume call sampled.
FirstSample == InitialOffset(callPos, direction, minStep)

\* Unit axis-aligned directions and general directions that do not ascend in y.
SupportedDirection ==
    IF Branch(direction) = "gen" THEN direction[2] < 0
    ELSE Abs(direction[ScanAxis(Branch(direction))]) = 1

\* The points of the ray where the field switches from zero to non-zero.
SwitchPoints == IF Ascending THEN { iv[1] : iv \in layout.ivs } ELSE { iv[2] : iv \in layout.ivs }

\* A returned pair and a slab of the field have a point in common.
Overlaps(pair, iv) ==
    LET a == Coord(pair[1])
        b == Coord(pair[2])
        lo == IF a < b THEN a ELSE b
        hi == IF a < b THEN b ELSE a
    IN  lo < iv[2] /\ iv[1] <= hi

\* C1: for a supported direction, FindFieldBoundaries returns exactly one
\* (entry, exit) pair for every maximal interval of the ray on which the
\* field is non-zero: as many pairs as intervals, and every interval is met
\* by a pair, however short the interval is.
C1_OnePairPerInterval ==
    (pc = "done" /\ SupportedDirection) =>
        /\ Len(boundaryCollection) = Cardinality(layout.ivs)
        /\ \A iv \in layout.ivs :
              \E i \in 1..Len(boundaryCollection) : Overlaps(boundaryCollection[i], iv)

\* C2: if the field is zero at every point, FindFieldBoundaries returns an
\* empty collection, for every direction and every minStep > 0.
C2_ZeroFieldEmpty ==
    (pc = "done" /\ layout.ivs = {}) => boundaryCollection = <<>>

\* C3: the entry point of every segment FindOneVolume finds from a zero-field
\* start lies within minStep, along the scanned coordinate, of a point where
\* the field switches from zero to non-zero (stated for the calls whose
\* bisection loop runs).
C3_EntryWithinMinStep ==
    (SegmentFound /\ Bisected /\ ~NonZero(layout, FirstSample)) =>
        \E s \in SwitchPoints : Abs(Coord(bInt[1]) - s) <= minStep

\* C4 as claimed: the field at the reported entry point is zero and the next
\* sample along the ray is non-zero (stated for the calls whose bisection
\* loop runs).
C4_EntryOnZeroSide ==
    (SegmentFound /\ Bisected) =>
        /\ ~NonZero(layout, bInt[1])
        /\ NonZero(layout, Advance(bInt[1], direction, dr))

\* C4 amended: when the bisection loop ran, the field at the reported entry
\* point is non-zero; and when the call's first sample had zero field, the
\* sample before the entry point, 2*dr back along the ray, has zero field.
C4_EntryOnNonZeroSide ==
    (SegmentFound /\ Bisected) =>
        /\ NonZero(layout, bInt[1])
        /\ ~NonZero(layout, FirstSample) =>
              ~NonZero(layout, Advance(bInt[1], direction, -2 * dr))

\* A segment found by bisection from a zero-field first sample.
C4_Witness ==
    /\ SegmentFound /\ Bisected
    /\ ~NonZero(layout, FirstSample)
    /\ bInt[1] # bInt[2]
    /\ boundaryCollection # <<>>

\* C5: FindFieldBoundaries always terminates, whatever the layout of the field
\* (for a direction that is not the null vector, which is the case of C15).
C5_Terminates == (direction # Zero3) => <>(pc = "done")

-----------------------------------------------------------------------------
(* GetFieldVector( in, out, N ): the transverse field at N points.          *)
(* The field of the model is transverse to the ray and FieldStrength tesla  *)
(* strong where it is not zero.  The TVectorD Bt is kept as its runs of     *)
(* equal values, <<value, count>>, in index order.                          *)

\* The strength of the field where it is not zero, in tesla.
FieldStrength == 2

\* N = TMath::Power(10,4)
DefaultSamples == 10^4

\* abs( B.Perp(direction) ) at the point p.
TransverseField(lay, p) == IF NonZero(lay, p) THEN FieldStrength ELSE 0

VecAdd(a, b) == <<a[1] + b[1], a[2] + b[2], a[3] + b[3]>>
VecSub(a, b) == <<a[1] - b[1], a[2] - b[2], a[3] - b[3]>>

\* Bt[i] = value, for the next index i.
SetNext(Bt, value) ==
    IF Bt # <<>> /\ Bt[Len(Bt)][1] = value
    THEN [Bt EXCEPT ![Len(Bt)] = <<value, @[2] + 1>>]
    ELSE Append(Bt, <<value, 1>>)

\* The point of the sample of index i: in = in + differential * (i/(N-1)),
\* applied to the point of the sample before.  The point is in + rem/(N-1):
\* in is its grid cell and rem what is left over, so nothing is rounded away.
NextSamplePoint(in, rem, differential, i, N) ==
    LET total == [k \in 1..3 |-> rem[k] + differential[k] * i]
    IN  [in  |-> <<in[1] + total[1] \div (N - 1), in[2] + total[2] \div (N - 1),
                   in[3] + total[3] \div (N - 1)>>,
         rem |-> <<total[1] % (N - 1), total[2] % (N - 1), total[3] % (N - 1)>>]

\* GetFieldVector up to the loop: the default N, differential and Bt[0].
EnterGetFieldVector(in, out, N0) ==
    [in0 |-> in, in |-> in, rem |-> Zero3, out |-> out,
     N |-> IF N0 = 0 THEN DefaultSamples ELSE N0,
     i |-> 1,
     differential |-> VecSub(out, in),
     Bt |-> << <<TransverseField(layout, in), 1>> >>]

\* The point of the scanned axis at coordinate c.
AxisPoint(dir, c) == [Zero3 EXCEPT ![ScanAxis(Branch(dir))] = c]

\* The (in, out) arguments of the direct calls, relative to Base.
SegmentEnds ==
    { <<10 * Scale, 30 * Scale>>, <<30 * Scale, 10 * Scale>>, <<10 * Scale, 14 * Scale>>,
      <<60 * Scale, 76 * Scale>>, <<20 * Scale, 40 * Scale>> }

\* The N arguments of the direct calls.
SampleCounts == { 2, 3, 5 }

\* The directions of the direct calls.
AxisDirections == { <<1, 0, 0>>, <<-1, 0, 0>>, <<0, 0, 1>>, <<0, -1, 0>> }

\* A direct call of GetFieldVector.
GetFieldVector ==
    /\ pc = "GetFieldVector"
    /\ \E ends \in SegmentEnds, N \in SampleCounts :
         LET base == Base(ScanAxis(Branch(direction)))
         IN  gfv' = EnterGetFieldVector(AxisPoint(direction, base + ends[1]),
                                        AxisPoint(direction, base + ends[2]), N)
    /\ pc' = "gfv_loop"
    /\ UNCHANGED <<inputs, tracer, gtp, pe, prop, apart>>

\* One iteration of for ( i = 1; i < N; i++ ).
FieldVectorSample ==
    /\ pc = "gfv_loop"
    /\ gfv.i < gfv.N
    /\ LET next == NextSamplePoint(gfv.in, gfv.rem, gfv.differential, gfv.i, gfv.N)
       IN  gfv' = [gfv EXCEPT !.in = next.in,
                              !.rem = next.rem,
                              !.Bt = SetNext(@, TransverseField(layout, next.in)),
                              !.i = @ + 1]
    /\ UNCHANGED <<inputs, tracer, pc, gtp, pe, prop, apart>>

\* return Bt
FieldVectorReturn ==
    /\ pc = "gfv_loop"
    /\ gfv.i >= gfv.N
    /\ pc' = "gfv_done"
    /\ UNCHANGED <<inputs, tracer, gfv, gtp, pe, prop, apart>>

InitFieldVector ==
    /\ direction \in AxisDirections
    /\ layout \in Layouts(direction)
    /\ evPos \in Positions
    /\ minStepArg = -1
    /\ pc = "GetFieldVector"
    /\ TracerIdle
    /\ FramesIdle

NextFieldVector ==
    \/ GetFieldVector
    \/ FieldVectorSample
    \/ FieldVectorReturn

SpecFieldVector == InitFieldVector /\ [][NextFieldVector]_vars

\* C6: GetFieldVector samples the field at the points in + (out - in)*i/(N-1),
\* i = 0..N-1: the sample of index i lies i/(N-1) of the way from the entry
\* point to the exit point, so the samples are equally spaced, the last one is
\* taken at the exit point and none lies outside the segment.
C6_UniformSamples ==
    pc \in {"gfv_loop", "gfv_done"} =>
        \A k \in 1..3 :
            (gfv.N - 1) * (gfv.in[k] - gfv.in0[k]) + gfv.rem[k]
                = (gfv.i - 1) * gfv.differential[k]

-----------------------------------------------------------------------------
(* TRestAxionPhotonConversion: BLHalfSquared and the scalar                 *)
(* GammaTransmissionProbability( Ea, Bmag, ma, Lcoh ).                      *)
(* Real quantities are kept as integers in fixed units:                     *)
(*   BLHalfSquared  in units of (tm/2000)^2 * 1e-20,                        *)
(*   phi            in units of PhMeterIneV / (2e6 * Ea),                   *)
(*   GammaL         in units of 1/10.                                       *)
(* The value of the van Bibber formula is kept as the triple it is a        *)
(* function of: (BLHalfSquared, phi, GammaL).                               *)

\* sol = lengthInMeters * Bmag * tm / 2;  sol = sol * sol * 1.0e-20
BLHalfSquared(Bmag, Lcoh) == LET sol == Lcoh * Bmag IN sol * sol

\* The special case is left out.
ShortCircuit_Never(ma, photonMass) == FALSE

\* if (ma == 0.0 && photonMass == 0.0) return BLHalfSquared(Bmag, Lcoh);
ShortCircuit(ma, photonMass) == ma = 0 /\ photonMass = 0

\* phi = q * l, with q = (ma*ma - photonMass*photonMass)/2./Ea/1000.0 and
\* l = cohLength * PhMeterIneV
Phi(ma, photonMass, Lcoh) == (ma * ma - photonMass * photonMass) * Lcoh

\* The inputs of the conversion.
Energies == { 1, 4 }
Fields == { 0, 2 }
AxionMasses == { 0, 1, 2 }
CoherenceLengths == { 0, 4000 }
\* fBufferGas: no gas, or the photon mass and the absorption of the gas.
Gases ==
    { NoGas,
      [present |-> TRUE, photonMass |-> 0, absorption |-> 0],
      [present |-> TRUE, photonMass |-> 1, absorption |-> 0],
      [present |-> TRUE, photonMass |-> 1, absorption |-> 3] }

\* Entry: the parameters and photonMass (the gas is asked when there is one).
GammaTransmissionProbability ==
    /\ pc = "GammaTransmissionProbability"
    /\ \E Ea \in Energies, Bmag \in Fields, ma \in AxionMasses,
          Lcoh \in CoherenceLengths, gas \in Gases :
         gtp' = [NoConversion EXCEPT
                    !.Ea = Ea, !.Bmag = Bmag, !.ma = ma, !.Lcoh = Lcoh,
                    !.fBufferGas = gas,
                    !.photonMass = IF gas.present THEN gas.photonMass ELSE 0,
                    !.queries = IF gas.present THEN 1 ELSE 0]
    /\ pc' = "gtp_test"
    /\ UNCHANGED <<inputs, tracer, gfv, pe, prop, apart>>

\* The special case returns BLHalfSquared(Bmag, Lcoh).
ReturnBLHalfSquared ==
    /\ pc = "gtp_test"
    /\ ShortCircuit(gtp.ma, gtp.photonMass)
    /\ gtp' = [gtp EXCEPT !.sol = [form |-> "BLHalfSquared",
                                   BLHalfSquared |-> BLHalfSquared(gtp.Bmag, gtp.Lcoh),
                                   phi |-> 0, GammaL |-> 0]]
    /\ pc' = "gtp_done"
    /\ UNCHANGED <<inputs, tracer, gfv, pe, prop, apart>>

\* q, l, phi, Gamma (the gas is asked when there is one) and GammaL.
ComputePhase ==
    /\ pc = "gtp_test"
    /\ ~ShortCircuit(gtp.ma, gtp.photonMass)
    /\ gtp' = [gtp EXCEPT
                  !.phi = Phi(gtp.ma, gtp.photonMass, gtp.Lcoh),
                  !.GammaL = (IF gtp.fBufferGas.present THEN gtp.fBufferGas.absorption ELSE 0)
                             * gtp.Lcoh,
                  !.queries = @ + (IF gtp.fBufferGas.present THEN 1 ELSE 0)]
    /\ pc' = "gtp_mfactor"
    /\ UNCHANGED <<inputs, tracer, gfv, pe, prop, apart>>

\* MFactor = phi*phi + GammaL*GammaL/4.0;  MFactor = 1.0/MFactor
ComputeMFactor ==
    /\ pc = "gtp_mfactor"
    /\ gtp' = [gtp EXCEPT !.MFactorEvaluated = TRUE]
    /\ pc' = "gtp_sol"
    /\ UNCHANGED <<inputs, tracer, gfv, pe, prop, apart>>

\* sol = MFactor * BLHalfSquared * (1 + exp(-GammaL) - 2*exp(-GammaL/2)*cos(phi));
\* with phi = GammaL = 0 this is (1/0) * BLHalfSquared * 0: not a number.
ReturnSol ==
    /\ pc = "gtp_sol"
    /\ gtp' = [gtp EXCEPT !.sol =
                  [form |-> IF gtp.phi = 0 /\ gtp.GammaL = 0 THEN "NaN" ELSE "vanBibber",
                   BLHalfSquared |-> BLHalfSquared(gtp.Bmag, gtp.Lcoh),
                   phi |-> gtp.phi, GammaL |-> gtp.GammaL]]
    /\ pc' = "gtp_done"
    /\ UNCHANGED <<inputs, tracer, gfv, pe, prop, apart>>

InitConversion ==
    /\ direction = <<1, 0, 0>>
    /\ layout = Place({}, 1)
    /\ evPos = Zero3
    /\ minStepArg = -1
    /\ pc = "GammaTransmissionProbability"
    /\ TracerIdle
    /\ FramesIdle

NextConversion ==
    \/ GammaTransmissionProbability
    \/ ReturnBLHalfSquared
    \/ ComputePhase
    \/ ComputeMFactor
    \/ ReturnSol

SpecConversion == InitConversion /\ [][NextConversion]_vars

\* C9: the scalar GammaTransmissionProbability never evaluates
\* M = 1/(phi^2 + (GammaL/2)^2) with phi = 0 and GammaL = 0.
C9_NoZeroDenominator ==
    gtp.MFactorEvaluated => ~(gtp.phi = 0 /\ gtp.GammaL = 0)

\* C10: without a buffer gas and with axion mass 0 the scalar
\* GammaTransmissionProbability returns (Bmag*Lcoh/2)^2 in natural units for
\* every Ea, Bmag and Lcoh, asks no medium and does not evaluate M.
C10_VacuumDegeneracy ==
    (pc = "gtp_done" /\ ~gtp.fBufferGas.present /\ gtp.ma = 0) =>
        /\ gtp.sol.form = "BLHalfSquared"
        /\ gtp.sol.BLHalfSquared = (gtp.Bmag * gtp.Lcoh) * (gtp.Bmag * gtp.Lcoh)
        /\ gtp.queries = 0
        /\ ~gtp.MFactorEvaluated

\* A vacuum call with axion mass 0 and a non-zero field and length has returned.
C10_Witness ==
    /\ pc = "gtp_done" /\ ~gtp.fBufferGas.present /\ gtp.ma = 0
    /\ gtp.Bmag # 0 /\ gtp.Lcoh # 0
    /\ gtp.sol.BLHalfSquared # 0

-----------------------------------------------------------------------------
(* ProcessEvent of the process that traces the boundaries itself:           *)
(* FindFieldBoundaries(), then for each volume GetFieldVector and the       *)
(* GammaTransmissionProbability of the field vector, then the sum.          *)
(* The event objects are "allocatedInput" and "allocatedOutput" (made by    *)
(* Initialize) and "evInput" (the argument of ProcessEvent).                *)

\* The value GammaTransmissionProbability( Ea, B, ma, Lcoh ) of a field vector
\* B: the integral is kept as the arguments it is a function of.
VectorProbability(Ea, B, ma, Lcoh) == [Ea |-> Ea, B |-> B, ma |-> ma, Lcoh |-> Lcoh]

\* Double_t ma = 1.0
FixedAxionMass == 1

\* The coherence length given to GammaTransmissionProbability for the volume b:
\* the first if stores the probability with abs(dx), the second if and its
\* else store it again, with abs(dz) or with abs(dy).
CoherenceLength(b) ==
    LET first  == IF b[1][2] = b[2][2] /\ b[1][3] = b[2][3]
                  THEN <<Abs(b[1][1] - b[2][1])>> ELSE <<>>
        second == IF b[1][1] = b[2][1] /\ b[1][2] = b[2][2]
                  THEN <<Abs(b[1][3] - b[2][3])>>
                  ELSE <<Abs(b[1][2] - b[2][2])>>
        stored == first \o second
    IN  stored[Len(stored)]

\* probability = 0. + probabilities[0] + probabilities[1] + ..., kept as the
\* terms in the order they are added.
SumOf(probabilities) == probabilities

\* What a read past the end of boundaries can give as a position.
StrayPositions == { Zero3 } \cup { boundaryCollection[j][2] : j \in 1..Len(boundaryCollection) }

\* InitProcess: the magnetic field and the photon conversion are required;
\* exit(0) when one of them is missing.
InitProcessFieldAndConversion ==
    /\ pc = "InitProcess"
    /\ pe' = [pe EXCEPT !.fAxionMagneticField = pe.metadataField,
                        !.fAxionPhotonConversion =
                            IF pe.metadataField THEN pe.metadataConversion ELSE @]
    /\ pc' = IF pe.metadataField /\ pe.metadataConversion THEN "ProcessEvent" ELSE "exited"
    /\ UNCHANGED <<inputs, tracer, gfv, gtp, prop, apart>>

\* fInputAxionEvent = evInput; fOutputAxionEvent = fInputAxionEvent; Ea, ma and
\* the call of FindFieldBoundaries().
ProcessEvent ==
    /\ pc = "ProcessEvent"
    /\ \E Ea \in Energies :
         pe' = [pe EXCEPT !.Ea = Ea, !.ma = FixedAxionMass,
                          !.fInputAxionEvent = "evInput",
                          !.fOutputAxionEvent = "evInput"]
    /\ pc' = "FindFieldBoundaries"
    /\ UNCHANGED <<inputs, tracer, gfv, gtp, prop, apart>>

\* boundaries = FindFieldBoundaries(); NofVolumes = boundaries.size()
ProcessEventBoundaries ==
    /\ pc = "done"
    /\ pe' = [pe EXCEPT !.boundaries = boundaryCollection,
                        !.NofVolumes = Len(boundaryCollection),
                        !.i = 0]
    /\ pc' = "pe_loop"
    /\ UNCHANGED <<inputs, tracer, gfv, gtp, prop, apart>>

\* B = GetFieldVector( boundaries[i][0], boundaries[i][1], 0 )
ProcessEventFieldVector ==
    /\ pc = "pe_loop"
    /\ pe.i < pe.NofVolumes
    /\ gfv' = EnterGetFieldVector(pe.boundaries[pe.i + 1][1], pe.boundaries[pe.i + 1][2], 0)
    /\ pe' = [pe EXCEPT !.accessed = pe.i]
    /\ pc' = "gfv_loop"
    /\ UNCHANGED <<inputs, tracer, gtp, prop, apart>>

\* probabilities[i] = GammaTransmissionProbability( Ea, B, ma, length )
ProcessEventProbability ==
    /\ pc = "gfv_done"
    /\ pe' = [pe EXCEPT !.B = gfv.Bt,
                        !.probabilities =
                            Append(@, VectorProbability(pe.Ea, gfv.Bt, pe.ma,
                                          CoherenceLength(pe.boundaries[pe.i + 1]))),
                        !.accessed = pe.i,
                        !.i = @ + 1]
    /\ pc' = "pe_loop"
    /\ UNCHANGED <<inputs, tracer, gfv, gtp, prop, apart>>

\* The sum and fOutputAxionEvent->SetGammaProbability( probability )
ProcessEventSum ==
    /\ pc = "pe_loop"
    /\ pe.i >= pe.NofVolumes
    /\ pe' = [pe EXCEPT !.probability = SumOf(pe.probabilities),
                        !.gammaProbability = pe.fOutputAxionEvent]
    /\ pc' = "pe_position"
    /\ UNCHANGED <<inputs, tracer, gfv, gtp, prop, apart>>

\* fOutputAxionEvent->SetPosition( boundaries[NofVolumes][1] ) reads past the
\* end of boundaries: the process stops there, or goes on with a stray
\* position and returns fOutputEvent.
ProcessEventPosition ==
    /\ pc = "pe_position"
    /\ \/ pe' = [pe EXCEPT !.accessed = pe.NofVolumes, !.returned = "crashed"]
       \/ \E p \in StrayPositions :
            pe' = [pe EXCEPT !.accessed = pe.NofVolumes,
                             !.position = p, !.returned = pe.fOutputEvent]
    /\ pc' = "pe_done"
    /\ UNCHANGED <<inputs, tracer, gfv, gtp, prop, apart>>

\* The destructor, between two calls of the process or after the last one:
\* delete fInputAxionEvent; delete fOutputAxionEvent;
Destructor ==
    /\ pc \in {"InitProcess", "ProcessEvent", "pe_done"}
    /\ pe.returned # "crashed"
    /\ pe' = [pe EXCEPT !.deleted = @ \o <<pe.fInputAxionEvent, pe.fOutputAxionEvent>>]
    /\ pc' = "destroyed"
    /\ UNCHANGED <<inputs, tracer, gfv, gtp, prop, apart>>

\* The layouts of the events.
EventLayouts(dir) ==
    { Place(rel, ScanAxis(Branch(dir))) :
        rel \in { {}, {<<10 * Scale, 30 * Scale>>},
                  {<<10 * Scale, 30 * Scale>>, <<60 * Scale, 75 * Scale>>} } }

\* The directions of the events.
EventDirections == { <<1, 0, 0>>, <<0, 0, -1>>, <<0, -1, 0>>, <<1, -1, 1>> }

\* After Initialize: fInputAxionEvent and fInputEvent are one event that
\* Initialize allocated, fOutputAxionEvent and fOutputEvent the other; the
\* metadata is there or not.
InitProcessEvent ==
    /\ direction \in EventDirections
    /\ layout \in EventLayouts(direction)
    /\ evPos \in Positions
    /\ minStepArg = -1
    /\ pc = "InitProcess"
    /\ TracerIdle
    /\ gfv = NoFieldVector
    /\ gtp = NoConversion
    /\ \E field \in BOOLEAN, conversion \in BOOLEAN :
         pe = [NoEvent EXCEPT !.fInputAxionEvent = "allocatedInput",
                              !.fInputEvent = "allocatedInput",
                              !.fOutputAxionEvent = "allocatedOutput",
                              !.fOutputEvent = "allocatedOutput",
                              !.metadataField = field,
                              !.metadataConversion = conversion]
    /\ prop = NoProcess
    /\ ApartIdle

NextProcessEvent ==
    \/ InitProcessFieldAndConversion
    \/ ProcessEvent
    \/ FindFieldBoundaries
    \/ CoarseAdvance
    \/ ReturnNoVolume
    \/ Halve
    \/ EntryFound
    \/ ExitAdvance
    \/ ReturnVolume
    \/ Collect
    \/ ReturnCollection
    \/ ProcessEventBoundaries
    \/ ProcessEventFieldVector
    \/ FieldVectorSample
    \/ FieldVectorReturn
    \/ ProcessEventProbability
    \/ ProcessEventSum
    \/ ProcessEventPosition
    \/ Destructor

SpecProcessEvent == InitProcessEvent /\ [][NextProcessEvent]_vars

\* The number of runs of non-zero samples in the field vector B.
NonZeroRuns(B) == Cardinality({ j \in 1..Len(B) : B[j][1] # 0 })

\* C8: for a ray that crosses two separate field regions ProcessEvent returns
\* with two volumes and reports the sum of the two probabilities, each of them
\* the probability of its region traced alone: the field vector of a volume
\* holds the samples of that one region, a single run of non-zero samples.
C8_TwoRegionsSum ==
    (pc = "pe_done" /\ Cardinality(layout.ivs) = 2 /\ SupportedDirection) =>
        /\ pe.returned \notin {"none", "crashed"}
        /\ pe.NofVolumes = 2
        /\ pe.probability = SumOf(pe.probabilities)
        /\ \A j \in 1..Len(pe.probabilities) : NonZeroRuns(pe.probabilities[j].B) = 1

-----------------------------------------------------------------------------
(* The process that asks the magnetic field for the track bounds:           *)
(* InitProcess and ProcessEvent.  GetFieldBoundaries and                    *)
(* GetTransversalComponentAlongPath belong to the magnetic field; what they *)
(* return is an input of the event.  Lengths are in mm.                     *)

\* The number of events of a run.
MaxEvents == 2

\* What GetFieldBoundaries returns: no point, or the two ends of the track
\* inside the field, or the ends of two tracks.
TrackBounds ==
    { <<>>,
      <<<<0, 0, -100>>, <<0, 0, 100>>>>,
      <<<<0, 0, -100>>, <<0, 0, -50>>, <<0, 0, 50>>, <<0, 0, 100>>>> }

\* What GetTransversalComponentAlongPath returns, in tesla.
FieldProfiles == { <<0>>, <<2, 2, 2>>, <<0, 2, 4>> }

\* The values of integrationStep and bufferGasAdditionalLength.
IntegrationSteps == { 50, 2000 }
AdditionalLengths == { 0, 30 }

RECURSIVE Accumulate(_)
\* std::accumulate( bProfile.begin(), bProfile.end(), 0.0 )
Accumulate(bProfile) ==
    IF bProfile = <<>> THEN 0 ELSE bProfile[1] + Accumulate(Tail(bProfile))

\* The value fAxionField->GammaTransmissionProbability( bProfile, step, Ea, ma ),
\* kept as the arguments it is a function of; a probability is the sequence
\* of the terms it is the sum of, and 0 the empty one.
FieldProbability(bProfile, step, Ea, ma) ==
    << [bProfile |-> bProfile, step |-> step, Ea |-> Ea, ma |-> ma] >>

\* InitProcess goes on without the magnetic field.
InitProcess_NoFieldTest ==
    /\ pc = "InitProcess"
    /\ prop' = [prop EXCEPT
                  !.fMagneticField = prop.metadataField,
                  !.fAxionField = TRUE,
                  !.fBufferGas = IF prop.fAxionField THEN @ ELSE prop.metadataGas,
                  !.fBufferGasAdditionalLength =
                      IF ~prop.fAxionField /\ ~prop.metadataGas.present THEN 0 ELSE @]
    /\ pc' = "ready"
    /\ UNCHANGED <<inputs, tracer, gfv, gtp, pe, apart>>

\* InitProcess: the magnetic field is required; the axion field and the
\* buffer gas are set up once.
InitProcess ==
    /\ pc = "InitProcess"
    /\ IF ~prop.metadataField
       THEN \* exit(0)
            /\ prop' = prop
            /\ pc' = "exited"
       ELSE /\ prop' = [prop EXCEPT
                          !.fMagneticField = TRUE,
                          !.fAxionField = TRUE,
                          !.fBufferGas = IF prop.fAxionField THEN @ ELSE prop.metadataGas,
                          !.fBufferGasAdditionalLength =
                              IF ~prop.fAxionField /\ ~prop.metadataGas.present THEN 0 ELSE @]
            /\ pc' = "ready"
    /\ UNCHANGED <<inputs, tracer, gfv, gtp, pe, apart>>

\* The additional length is folded into the coherence length.
Observables_Folded(p, trackBounds, bProfile, Ea, ma) ==
    IF Len(trackBounds) = 2
    THEN [fieldAverage |-> Accumulate(bProfile) \div Len(bProfile),
          probability |-> FieldProbability(bProfile, p.fIntegrationStep, Ea, ma),
          coherenceLength |-> (Len(bProfile) - 1) * p.fIntegrationStep
                              + p.fBufferGasAdditionalLength,
          transmission |-> Exp(0)]
    ELSE NoObservables

\* fieldAverage, prob, lCoh and transmission at the end of ProcessEvent, for
\* the process p and the track bounds, field profile, energy and mass of the event.
Observables(p, trackBounds, bProfile, Ea, ma) ==
    LET lCoh == (Len(bProfile) - 1) * p.fIntegrationStep
        GammaL == p.fBufferGas.absorption * lCoh
    IN  IF Len(trackBounds) = 2
        THEN [fieldAverage |-> Accumulate(bProfile) \div Len(bProfile),
              probability |-> FieldProbability(bProfile, p.fIntegrationStep, Ea, ma),
              coherenceLength |-> lCoh,
              transmission |->
                  IF p.fBufferGas.present /\ p.fBufferGasAdditionalLength > 0
                  THEN Exp(GammaL) ELSE Exp(0)]
        ELSE NoObservables

\* The track does not cross the field and the process stops.
ProcessEvent_ExitOnNoCrossing ==
    /\ pc = "ready"
    /\ prop.events < MaxEvents
    /\ \E trackBounds \in TrackBounds :
         /\ prop' = [prop EXCEPT !.trackBounds = trackBounds, !.events = @ + 1]
         /\ pc' = IF Len(trackBounds) = 2 THEN "ready" ELSE "exited"
    /\ UNCHANGED <<inputs, tracer, gfv, gtp, pe, apart>>

\* ProcessEvent: the observables of one event.
ProcessEventTrackBounds ==
    /\ pc = "ready"
    /\ prop.events < MaxEvents
    /\ \E trackBounds \in TrackBounds, bProfile \in FieldProfiles,
          Ea \in Energies, ma \in AxionMasses :
         prop' = [prop EXCEPT
                    !.trackBounds = trackBounds,
                    !.bProfile = IF Len(trackBounds) = 2 THEN bProfile ELSE <<>>,
                    !.Ea = Ea,
                    !.ma = ma,
                    !.observables = Observables(prop, trackBounds, bProfile, Ea, ma),
                    !.warning = IF Len(trackBounds) = 2 THEN @ ELSE TRUE,
                    !.events = @ + 1,
                    !.returned = "fAxionEvent"]
    /\ pc' = "ready"
    /\ UNCHANGED <<inputs, tracer, gfv, gtp, pe, apart>>

\* After construction: the parameters are read and the metadata is there or not.
InitPropagation ==
    /\ direction = <<1, 0, 0>>
    /\ layout = Place({}, 1)
    /\ evPos = Zero3
    /\ minStepArg = -1
    /\ pc = "InitProcess"
    /\ TracerIdle
    /\ gfv = NoFieldVector
    /\ gtp = NoConversion
    /\ pe = NoEvent
    /\ \E field \in BOOLEAN, gas \in Gases, step \in IntegrationSteps,
          length \in AdditionalLengths :
         prop = [NoProcess EXCEPT !.metadataField = field, !.metadataGas = gas,
                                  !.fIntegrationStep = step,
                                  !.fBufferGasAdditionalLength = length]
    /\ ApartIdle

NextPropagation ==
    \/ InitProcess
    \/ ProcessEventTrackBounds

SpecPropagation == InitPropagation /\ [][NextPropagation]_vars

\* C7: when the track bounds hold no segment ProcessEvent returns the event
\* with probability 0, fieldAverage 0, coherenceLength 0 and transmission 1,
\* and the process is neither stopped nor on the path of a missing field.
C7_NoCrossingIsNormal ==
    (prop.events > 0 /\ Len(prop.trackBounds) < 2) =>
        /\ prop.returned = "fAxionEvent"
        /\ prop.observables.probability = <<>>
        /\ prop.observables.fieldAverage = 0
        /\ prop.observables.coherenceLength = 0
        /\ prop.observables.transmission = Exp(0)
        /\ pc = "ready"

\* The second event of a run has no segment; a buffer gas and an additional
\* length are configured.
C7_Witness ==
    /\ prop.events = 2
    /\ prop.trackBounds = <<>>
    /\ prop.warning
    /\ prop.fBufferGas.present
    /\ prop.fBufferGasAdditionalLength > 0
    /\ pc = "ready"

\* The track crossed the field with a buffer gas and an additional length.
GasCrossing ==
    /\ prop.events > 0
    /\ Len(prop.trackBounds) = 2
    /\ prop.fBufferGas.present
    /\ prop.fBufferGasAdditionalLength > 0

\* C11: with a buffer gas and a non-zero additional length the transmission
\* that ProcessEvent reports is exp(-Gamma * fBufferGasAdditionalLength), the
\* additional length and no other length.
C11_TransmissionOverAdditionalLength ==
    GasCrossing =>
        prop.observables.transmission
            = Exp(prop.fBufferGas.absorption * prop.fBufferGasAdditionalLength)

ObservablesWith(l) ==
    Observables([prop EXCEPT !.fBufferGasAdditionalLength = l],
                prop.trackBounds,
                IF prop.bProfile = <<>> THEN <<0>> ELSE prop.bProfile,
                prop.Ea, prop.ma)

\* C13: the additional length changes the transmission only: ProcessEvent on
\* the same particle, field and buffer gas with any other additional length
\* reports the same probability, fieldAverage and coherenceLength.
C13_AdditionalLengthOnlyInTransmission ==
    prop.events > 0 =>
        /\ prop.observables = ObservablesWith(prop.fBufferGasAdditionalLength)
        /\ \A l \in AdditionalLengths :
             /\ ObservablesWith(l).probability = prop.observables.probability
             /\ ObservablesWith(l).fieldAverage = prop.observables.fieldAverage
             /\ ObservablesWith(l).coherenceLength = prop.observables.coherenceLength

\* A crossing with a buffer gas whose transmission does change with the
\* additional length.
C13_Witness ==
    /\ GasCrossing
    /\ prop.observables.coherenceLength > 0
    /\ \E l \in AdditionalLengths :
         ObservablesWith(l).transmission # prop.observables.transmission

\* C14: without a magnetic field InitProcess stops the program before any
\* event is computed: no ProcessEvent has started, no boundary is traced and
\* no field or probability is asked for while the field pointer is null.
C14_NoEventWithoutField ==
    /\ prop.events > 0 => prop.fMagneticField
    /\ (pc = "exited" /\ prop # NoProcess) => (prop.events = 0 /\ prop.returned = "none")
    /\ (pe # NoEvent /\ ~pe.metadataField) =>
           /\ pc \in {"InitProcess", "exited", "destroyed"}
           /\ TracerIdle
           /\ gfv = NoFieldVector
           /\ pe.probabilities = <<>>

\* InitProcess has stopped the program because the magnetic field is missing.
C14_Witness ==
    /\ pc = "exited"
    /\ \/ prop # NoProcess /\ ~prop.metadataField
       \/ pe # NoEvent /\ ~pe.metadataField

\* C15: with the direction (0,0,0) the boundary tracer ends in finitely many
\* steps (with an explicit failure): it does not loop for ever.
C15_ZeroDirectionEnds ==
    (direction = Zero3) => <>(pc = "done")

\* C17: when the y component of the direction is positive FindOneVolume fails
\* fast: after its test of the direction it makes no scan step (pos stays at
\* the first sample, dr at the coarse step) and returns no boundary points.
C17_AscendingFailsFast ==
    (direction[2] > 0) =>
        /\ pc \in {"FindFieldBoundaries", "scan", "found"}
        /\ pc # "FindFieldBoundaries" => (pos = FirstSample /\ dr = CoarseStep)
        /\ boundaryCollection = <<>>

-----------------------------------------------------------------------------
(* GammaTransmissionProbability( Ea, B, ma, Lcoh ) of a field vector B,     *)
(* called on its own.                                                       *)

\* The field vectors of the direct calls: without a sample, with one, with more.
FieldVectors == { <<>>, <<2>>, <<2, 2>>, <<0, 2, 4>>, <<2, 0, 2, 0>> }

\* What the function returns for B.  There is no test of the size of B: with
\* N = size - 1 the loop, the two histograms and the integral are made for
\* every B.  With two samples or more the result is the integral.  With one
\* sample i/N is 0/0 and with none the histograms stay empty: what comes out
\* of the histograms is then 0 or not a number, and it is returned as sol.
VectorSol(Ea, B, ma, Lcoh) ==
    IF Len(B) >= 2 THEN { VectorProbability(Ea, B, ma, Lcoh) } ELSE { "0", "NaN" }

\* The whole function.
VectorGammaTransmissionProbability ==
    /\ pc = "VectorGammaTransmissionProbability"
    /\ \E Ea \in Energies, B \in FieldVectors, ma \in AxionMasses,
          Lcoh \in CoherenceLengths, gas \in Gases :
         \E sol \in VectorSol(Ea, B, ma, Lcoh) :
            vgtp' = [Ea |-> Ea, B |-> B, ma |-> ma, Lcoh |-> Lcoh,
                     fBufferGas |-> gas, sol |-> sol]
    /\ pc' = "vgtp_done"
    /\ UNCHANGED <<inputs, tracer, gfv, gtp, pe, prop, firstRun, conc>>

InitVectorConversion ==
    /\ direction = <<1, 0, 0>>
    /\ layout = Place({}, 1)
    /\ evPos = Zero3
    /\ minStepArg = -1
    /\ pc = "VectorGammaTransmissionProbability"
    /\ TracerIdle
    /\ FramesIdle

NextVectorConversion == VectorGammaTransmissionProbability

SpecVectorConversion == InitVectorConversion /\ [][NextVectorConversion]_vars

\* C16: GammaTransmissionProbability of a field vector with fewer than 2
\* samples ends in an explicit failure and returns no number.
C16_ShortProfileRejected ==
    (pc = "vgtp_done" /\ Len(vgtp.B) < 2) => vgtp.sol = "failure"

-----------------------------------------------------------------------------
(* FindFieldBoundaries called twice for the same event and field: on the    *)
(* ray and on the reversed ray, or with a minStep and with a smaller one.   *)

\* Single regions, symmetric about the middle of the two start points.
SymmetricLayouts ==
    { [axis |-> 1, ivs |-> { <<-h, h>> }] :
        h \in { 10 * Scale, 10 * Scale + 300, 3 * Scale + 77 } }

\* The minStep arguments of the two calls.
RetraceMinStepArgs == { -1, (5 * Scale) \div 16, (5 * Scale) \div 4 }

\* minStep after the default is applied.
EffectiveMinStep(m) == IF m = -1 THEN DefaultMinStep ELSE m

\* The frame of the tracer before a call of FindFieldBoundaries.
TracerReset ==
    /\ minStep' = 0
    /\ callPos' = Zero3
    /\ pos' = Zero3
    /\ dr' = 0
    /\ boundaryIn' = Zero3
    /\ bInt' = <<Zero3, Zero3>>
    /\ boundaryCollection' = <<>>

\* The first call has returned; the second call is for the reversed ray.
TraceReversed ==
    /\ pc = "done"
    /\ firstRun.kind = "none"
    /\ firstRun' = [kind |-> "reversed", direction |-> direction, minStep |-> minStep,
                    boundaries |-> boundaryCollection]
    /\ direction' = <<-direction[1], -direction[2], -direction[3]>>
    /\ TracerReset
    /\ pc' = "FindFieldBoundaries"
    /\ UNCHANGED <<layout, evPos, minStepArg, gfv, gtp, pe, prop, vgtp, conc>>

\* The first call has returned; the second call has a smaller minStep.
TraceFiner ==
    /\ pc = "done"
    /\ firstRun.kind = "none"
    /\ \E m \in RetraceMinStepArgs :
         /\ EffectiveMinStep(m) < minStep
         /\ minStepArg' = m
    /\ firstRun' = [kind |-> "finer", direction |-> direction, minStep |-> minStep,
                    boundaries |-> boundaryCollection]
    /\ TracerReset
    /\ pc' = "FindFieldBoundaries"
    /\ UNCHANGED <<layout, evPos, direction, gfv, gtp, pe, prop, vgtp, conc>>

InitRetrace ==
    /\ direction \in { <<1, 0, 0>>, <<-1, 0, 0>> }
    /\ layout \in SymmetricLayouts
    /\ evPos \in Positions
    /\ minStepArg \in RetraceMinStepArgs
    /\ pc = "FindFieldBoundaries"
    /\ TracerIdle
    /\ FramesIdle

NextRetrace ==
    \/ FindFieldBoundaries
    \/ CoarseAdvance
    \/ ReturnNoVolume
    \/ Halve
    \/ EntryFound
    \/ ExitAdvance
    \/ ReturnVolume
    \/ Collect
    \/ ReturnCollection
    \/ TraceReversed
    \/ TraceFiner

SpecRetrace == InitRetrace /\ [][NextRetrace]_vars

\* Both calls have returned one segment.
OneSegmentTwice ==
    /\ pc = "done"
    /\ Len(firstRun.boundaries) = 1
    /\ Len(boundaryCollection) = 1

\* C18: on a single symmetric region the trace of the ray and the trace of the
\* reversed ray give the same two points: the entry of one is the exit of the
\* other, within minStep.
C18_ReversedSameBoundaries ==
    (firstRun.kind = "reversed" /\ pc = "done") =>
        /\ OneSegmentTwice
        /\ Abs(Coord(firstRun.boundaries[1][1]) - Coord(boundaryCollection[1][2])) <= minStep
        /\ Abs(Coord(firstRun.boundaries[1][2]) - Coord(boundaryCollection[1][1])) <= minStep

\* C19: after FindFieldBoundaries with minStep m1, the call with a smaller
\* minStep moves each entry and each exit by at most m1.
C19_FinerMovesAtMostMinStep ==
    (firstRun.kind = "finer" /\ pc = "done") =>
        /\ Len(firstRun.boundaries) = Len(boundaryCollection)
        /\ \A j \in 1..Len(boundaryCollection) : \A e \in 1..2 :
             Abs(Coord(firstRun.boundaries[j][e]) - Coord(boundaryCollection[j][e]))
                 <= firstRun.minStep

-----------------------------------------------------------------------------
(* ProcessEvent invoked by two threads on the same process, each with its   *)
(* own event.  The member fAxionEvent is shared; a step of a thread is one  *)
(* access to it.                                                            *)

Threads == { 1, 2 }

\* The event a thread was given.
EventOf(t) == IF t = 1 THEN "event1" ELSE "event2"

\* A thread at the entry of ProcessEvent( evInput ).
ThreadAtEntry(t) ==
    [pc |-> "assign", evInput |-> EventOf(t), tracedEvent |-> "none",
     crossing |-> FALSE, energyEvent |-> "none", returned |-> "none"]

\* fAxionEvent = (TRestAxionEvent*)evInput
ThreadAssign ==
    /\ pc = "threads"
    /\ \E t \in Threads :
         /\ conc.thread[t].pc = "assign"
         /\ conc' = [conc EXCEPT !.fAxionEvent = conc.thread[t].evInput,
                                 !.thread[t].pc = "bounds"]
    /\ UNCHANGED <<inputs, tracer, pc, gfv, gtp, pe, prop, vgtp, firstRun>>

\* GetFieldBoundaries( fAxionEvent->GetPosition(), fAxionEvent->GetDirection() )
\* and the test of trackBounds.size()
ThreadTrackBounds ==
    /\ pc = "threads"
    /\ \E t \in Threads, crossing \in BOOLEAN :
         /\ conc.thread[t].pc = "bounds"
         /\ conc' = [conc EXCEPT !.thread[t].tracedEvent = conc.fAxionEvent,
                                 !.thread[t].crossing = crossing,
                                 !.thread[t].pc = IF crossing THEN "energy" ELSE "return"]
    /\ UNCHANGED <<inputs, tracer, pc, gfv, gtp, pe, prop, vgtp, firstRun>>

\* Ea = fAxionEvent->GetEnergy(); ma = fAxionEvent->GetMass() and the probability
ThreadEnergy ==
    /\ pc = "threads"
    /\ \E t \in Threads :
         /\ conc.thread[t].pc = "energy"
         /\ conc' = [conc EXCEPT !.thread[t].energyEvent = conc.fAxionEvent,
                                 !.thread[t].pc = "return"]
    /\ UNCHANGED <<inputs, tracer, pc, gfv, gtp, pe, prop, vgtp, firstRun>>

\* return fAxionEvent
ThreadReturn ==
    /\ pc = "threads"
    /\ \E t \in Threads :
         /\ conc.thread[t].pc = "return"
         /\ conc' = [conc EXCEPT !.thread[t].returned = conc.fAxionEvent,
                                 !.thread[t].pc = "returned"]
    /\ UNCHANGED <<inputs, tracer, pc, gfv, gtp, pe, prop, vgtp, firstRun>>

InitThreads ==
    /\ direction = <<1, 0, 0>>
    /\ layout = Place({}, 1)
    /\ evPos = Zero3
    /\ minStepArg = -1
    /\ pc = "threads"
    /\ TracerIdle
    /\ gfv = NoFieldVector
    /\ gtp = NoConversion
    /\ pe = NoEvent
    /\ prop = NoProcess
    /\ vgtp = NoVectorConversion
    /\ firstRun = NoFirstRun
    /\ conc = [fAxionEvent |-> "allocated",
               thread |-> <<ThreadAtEntry(1), ThreadAtEntry(2)>>]

NextThreads ==
    \/ ThreadAssign
    \/ ThreadTrackBounds
    \/ ThreadEnergy
    \/ ThreadReturn

SpecThreads == InitThreads /\ [][NextThreads]_vars

\* C20: under every interleaving of two ProcessEvent invocations on one
\* process each invocation works on its own particle: the position and
\* direction it traces, the energy and mass it reads and the event it returns
\* are those of the event it was given.
C20_InvocationsIndependent ==
    \A t \in 1..Len(conc.thread) :
        /\ conc.thread[t].tracedEvent \in {"none", conc.thread[t].evInput}
        /\ conc.thread[t].energyEvent \in {"none", conc.thread[t].evInput}
        /\ conc.thread[t].returned \in {"none", conc.thread[t].evInput}

-----------------------------------------------------------------------------
(* The collection FindFieldBoundaries returns, segment by segment.          *)

\* The segments of the returned collection (the first MaxSegments of them).
ReturnedSegments ==
    IF pc = "done" THEN { boundaryCollection[i] : i \in 1..Len(boundaryCollection) } ELSE {}

\* C21: every segment of the collection FindFieldBoundaries returns is valid:
\* its entry differs from its exit, the field is non-zero at the entry and
\* zero at the exit, and neither point is the (0,0,0) that FindOneVolume
\* returns as exit when there is no further segment.
C21_SegmentsValid ==
    \A seg \in ReturnedSegments :
        /\ seg[1] # seg[2]
        /\ NonZero(layout, seg[1])
        /\ ~NonZero(layout, seg[2])
        /\ seg[1] # Zero3 /\ seg[2] # Zero3

-----------------------------------------------------------------------------
(* The coherence length ProcessEvent gives to GammaTransmissionProbability. *)

\* L is the distance between the two points of the segment b.
IsSegmentLength(L, b) ==
    LET d == VecSub(b[2], b[1])
    IN  L >= 0 /\ L * L = d[1] * d[1] + d[2] * d[2] + d[3] * d[3]

\* C22: the coherence length of every stored probability is the length of its
\* segment, the distance between entry and exit: |dx| on an x-aligned
\* segment, |dz| on a z-aligned one, the full distance otherwise; an
\* x-aligned segment that has a length is never evaluated with length 0.
C22_CoherenceLengthIsSegmentLength ==
    \A j \in 1..Len(pe.probabilities) :
        IsSegmentLength(pe.probabilities[j].Lcoh, pe.boundaries[j])

-----------------------------------------------------------------------------
(* The general-direction branch of FindOneVolume and the line of the ray.   *)

\* p is on the line point = origin + t*direction of the event: the cross
\* product of p - origin and direction is zero.
OnRay(p) ==
    LET d == VecSub(p, evPos)
    IN  /\ d[2] * direction[3] - d[3] * direction[2] = 0
        /\ d[3] * direction[1] - d[1] * direction[3] = 0
        /\ d[1] * direction[2] - d[2] * direction[1] = 0

\* C23: in the general-direction branch every point where the field is
\* sampled and every reported boundary point is on the line of the ray: x and
\* z follow every change of y, the minStep/2 offset before the scan included.
C23_PointsOnRay ==
    Branch(direction) = "gen" =>
        /\ pc \in {"scan", "exit"} => OnRay(pos)
        /\ SegmentFound => OnRay(bInt[1]) /\ OnRay(bInt[2])

-----------------------------------------------------------------------------
(* ProcessEvent of the process that traces the boundaries itself: the reads *)
(* of boundaries and the event objects the process owns.                    *)

\* C24: ProcessEvent reads boundaries only at the indices 0..NofVolumes-1:
\* no read boundaries[i] has i >= boundaries.size(), for every number of
\* volumes, 0 included, and in particular when the position of the output
\* event is set after the sum.
C24_IndexInRange == pe.accessed < Len(pe.boundaries)

\* The event objects Initialize allocated.
AllocatedEvents == { "allocatedInput", "allocatedOutput" }

\* C25: over Initialize, any calls of ProcessEvent and the destructor, the
\* process deletes only event objects that Initialize allocated, never the
\* event of the caller, deletes no object twice, and when it is destroyed
\* the events of Initialize are deleted, not lost.
C25_OwnEventsFreedOnce ==
    /\ \A j \in 1..Len(pe.deleted) : pe.deleted[j] \in AllocatedEvents
    /\ \A j, k \in 1..Len(pe.deleted) : pe.deleted[j] = pe.deleted[k] => j = k
    /\ pc = "destroyed" => \A e \in AllocatedEvents : \E j \in 1..Len(pe.deleted) : pe.deleted[j] = e

-----------------------------------------------------------------------------
(* The order of the segments FindFieldBoundaries returns.                   *)

\* The place of a point along the ray, growing in the direction of travel.
Along(p) ==
    LET d == direction[ScanAxis(Branch(direction))]
    IN  IF d < 0 THEN -Coord(p) ELSE Coord(p)

\* C26: the segments FindFieldBoundaries returns are ordered along the ray and
\* do not overlap: in each pair the exit is after the entry in the direction
\* of travel, and the entry of each following pair is at or after the exit of
\* the pair before, also when FindOneVolume restarts from an exit whose next
\* sample, exit + minStep/2, has non-zero field (stated for the supported
\* directions and the calls whose bisection loop runs).
C26_SegmentsOrdered ==
    (pc = "done" /\ SupportedDirection /\ Bisected) =>
        /\ \A i \in 1..Len(boundaryCollection) :
             Along(boundaryCollection[i][1]) < Along(boundaryCollection[i][2])
        /\ \A i \in 2..Len(boundaryCollection) :
             Along(boundaryCollection[i - 1][2]) <= Along(boundaryCollection[i][1])

====
